---- MODULE Spec2Model ----
(***************************************************************************)
(* A model of src/main.py: the UptimeMonitor (construction from the dump   *)
(* file, the scheduler loop run(), the probe tasks check_url running on    *)
(* the thread pool) and the HTTP handler thread that serves /full and      *)
(* /aggregated from the same, unlocked, self.data.                         *)
(*                                                                         *)
(* Time.  An instant is a natural number of sub-second units; Sub units    *)
(* make one second.  datetime.now() reads the variable clock.  A           *)
(* timestamp string "YYYY-MM-DD HH:MM:SS" is modelled by the number of the *)
(* second it names; the string BadTs stands for any text strptime rejects. *)
(*                                                                         *)
(* Dicts.  A dict is a function; its DOMAIN is its key set.  A history is  *)
(* filled in clock order (a key is inserted at datetime.now()), so the     *)
(* insertion order CPython iterates in is the order of the instants.       *)
(***************************************************************************)
EXTENDS Integers, Sequences, FiniteSets, TLC

\* ------------------------------------------------------------------ bounds
MaxClock == 2        \* the clock saturates here
Sub == 2             \* sub-second units per second
MaxTasks == 2        \* check_url tasks submitted and not finished at one time
MaxWindow == 3       \* retention windows drawn by PruneSpec
MaxPool == 2         \* pool capacities drawn by PoolSpec

\* ------------------------------------------------- configuration (inputs)
Urls == <<"a", "b">>             \* the configured list, self.urls
UrlSet == {Urls[i] : i \in 1..Len(Urls)}
FileUrls == UrlSet \cup {"x"}    \* "x": a URL of an older configuration
RetentionTime == 1               \* retention_time, in units
CheckPeriod == 1                 \* check_period, in units
PoolSize == 50                   \* ThreadPoolExecutor(50)

Instants == 0..MaxClock
Outcomes == {0, 1}
BadTs == -1
Seconds == 0..(MaxClock \div Sub)

\* -------------------------------------------------------------- dict helpers
EmptyDict == [k \in {} |-> 0]
Put(d, k, v) == [x \in (DOMAIN d) \cup {k} |-> IF x = k THEN v ELSE d[x]]
Del(d, k) == [x \in (DOMAIN d) \ {k} |-> d[x]]
SetMin(S) == CHOOSE x \in S : \A y \in S : x <= y
SetMax(S) == CHOOSE x \in S : \A y \in S : x >= y

\* ------------------------------------------------------------------- codec
\* a format without the seconds
FormatTsMinutes(t) == t \div (2 * Sub)
\* str(_datetime).split(".")[0]: the second the instant lies in
FormatTs(t) == t \div Sub
\* datetime.strptime(st, '%Y-%m-%d %H:%M:%S'): raises on any other text
TsParses(s) == s >= 0
ParseTs(s) == s * Sub

\* the inner loop of data_to_json over one history, in iteration order:
\* a later instant of the same second overwrites the entry of an earlier one
RECURSIVE HistToJson(_, _)
HistToJson(h, acc) ==
    IF DOMAIN h = {} THEN acc
    ELSE LET k == SetMin(DOMAIN h)
         IN  HistToJson(Del(h, k), Put(acc, FormatTs(k), h[k]))

DataToJson(d) == [u \in DOMAIN d |-> HistToJson(d[u], EmptyDict)]

\* json_to_data raises (ValueError) at the first key strptime rejects; the
\* result, a local, is then lost
JsonDecodes(j) == \A u \in DOMAIN j : \A s \in DOMAIN j[u] : TsParses(s)

\* a decoder that drops the keys it cannot parse
JsonToDataSkipsBad(j) ==
    [raised |-> FALSE,
     res |-> [u \in DOMAIN j |->
                [t \in {ParseTs(s) : s \in {x \in DOMAIN j[u] : TsParses(x)}} |->
                    j[u][CHOOSE s \in DOMAIN j[u] : TsParses(s) /\ ParseTs(s) = t]]]]

JsonToData(j) ==
    IF JsonDecodes(j)
    THEN [raised |-> FALSE,
          res |-> [u \in DOMAIN j |->
                     [t \in {ParseTs(s) : s \in DOMAIN j[u]} |->
                         j[u][CHOOSE s \in DOMAIN j[u] : ParseTs(s) = t]]]]
    ELSE [raised |-> TRUE, res |-> EmptyDict]

\* ------------------------------------------------------------- the dump file
NoFile == [kind |-> "absent", js |-> EmptyDict]
Unreadable == [kind |-> "unreadable", js |-> EmptyDict]
\* not JSON: garbage, or the empty file open(..., 'w') leaves behind
Invalid == [kind |-> "invalid", js |-> EmptyDict]
JsonFile(j) == [kind |-> "json", js |-> j]

\* every well-formed JSON object over the URLs in Fs, with at most one
\* timestamp key per history drawn from Ks
JsonObjects(Fs, Ks) ==
    LET Hists == {EmptyDict} \cup
                 {[k \in {s} |-> v] : s \in Ks, v \in Outcomes} \cup
                 {[k \in {0, s} |-> v] : s \in Ks \ {0}, v \in Outcomes}
    IN  UNION {[S -> Hists] : S \in SUBSET Fs}

\* the dump files the monitor is started on
DumpFiles ==
    {NoFile, Invalid,
     JsonFile([u \in {"a", "x"} |-> [s \in {0} |-> IF u = "a" THEN 1 ELSE 0]]),
     JsonFile([u \in {"a", "b"} |->
                 [s \in (IF u = "a" THEN {0} ELSE {BadTs}) |-> 1]])}

\* the latest instant a dump file names: it was written in the past
FileClock(f) ==
    LET ts == UNION {{ParseTs(s) : s \in {x \in DOMAIN f.js[u] : TsParses(x)}} :
                       u \in DOMAIN f.js}
    IN  IF ts = {} THEN 0 ELSE SetMax(ts)

\* ------------------------------------------------------------------- state
VARIABLES
    clock,           \* what datetime.now() returns
    file,            \* the content of self.dump_file
    retention_time,  \* self.retention_time, in units
    max_workers,     \* the capacity of self.pool
    queue,           \* the work queue of self.pool: the tasks no worker has
                     \* taken yet
    data,            \* self.data: URL -> (instant -> outcome)
    sched,           \* the thread in run(): position and locals
    inflight,        \* URL -> number of check_url tasks a worker is running
    http,            \* the handler thread of the HTTP server
    tick,            \* what the current tick of run() has done so far
    seen,            \* the values self.data took during the data_to_json
                     \* call of the dump_data under way
    before,          \* self.data as it was when the delete_expired under
                     \* way began
    snap,            \* where dumps are recorded (on), the most recent
                     \* completed dump: the values self.data took during its
                     \* data_to_json, and what was written
    call             \* the last call observed of the function call.fn
                     \* (json_to_data, or check_url where armed for it): what
                     \* it returned or did

vars == <<clock, file, retention_time, max_workers, data, sched, queue,
          inflight, http, tick, seen, before, snap, call>>
aux == <<before, call>>

\* a dict iterator: di_used, the last key it yielded, and di->len; NoIter
\* where the loop has not made its iterator yet
NoIter == [used |-> -1, pos |-> -1, len |-> 0]
NewIter(d) == [used |-> Cardinality(DOMAIN d), pos |-> -1,
               len |-> Cardinality(DOMAIN d)]
IterRest(it, d) == {k \in DOMAIN d : k > it.pos}
\* "dictionary changed size during iteration" / "keys changed during iteration"
IterRaises(it, d) ==
    \/ it.used # Cardinality(DOMAIN d)
    \/ IterRest(it, d) # {} /\ it.len = 0
IterYield(it, k) == [it EXCEPT !.pos = k, !.len = @ - 1]

SchedIdle(pc) ==
    [pc |-> pc, ui |-> 0, it |-> NoIter, res |-> EmptyDict,
     to_delete |-> {}, now |-> 0, wake |-> 0]
HttpIdle == [pc |-> "idle", ui |-> 0, it |-> NoIter, res |-> EmptyDict,
             cur |-> EmptyDict, path |-> "none", out |-> EmptyDict,
             err |-> "none"]
\* error: the call of the try block that raised in this tick, if any
NewTick == [dumped |-> FALSE, pruned |-> FALSE, submitted |-> 0,
            error |-> "none"]
DumpErrors == {"open", "data_to_json", "json.dump"}

NoCall == [fn |-> "none", ret |-> EmptyDict]
NoProbe == [fn |-> "check_url", ret |-> EmptyDict]
NoSnap == [on |-> FALSE, states |-> {}, js |-> EmptyDict]
Recording == [on |-> TRUE, states |-> {}, js |-> EmptyDict]

AllEmpty == [u \in UrlSet |-> EmptyDict]
\* every MonitorState over the configured URLs
Histories == UNION {[S -> Outcomes] : S \in SUBSET Instants}
MonitorStates == [UrlSet -> Histories]

\* the threads at rest: the scheduler at pc, no task, no request
AtRest(pc) ==
    /\ sched = SchedIdle(pc)
    /\ queue = <<>>
    /\ inflight = [u \in UrlSet |-> 0]
    /\ http = HttpIdle
    /\ tick = NewTick
    /\ seen = {}
    /\ before = EmptyDict
    /\ call = NoCall

\* the process starts: nothing is loaded yet
Start(files) ==
    /\ file \in files
    /\ clock = FileClock(file)
    /\ retention_time = RetentionTime
    /\ max_workers = PoolSize
    /\ data = EmptyDict
    /\ AtRest("init")
InitWith(files) == Start(files) /\ snap = NoSnap

Init == InitWith(DumpFiles)

\* ---------------------------------------------------------- construction
\* lines 71-74: delete urls that are in the dump but not configured
KeepUnconfigured(d) == d
DropUnconfigured(d) == [u \in (DOMAIN d) \cap UrlSet |-> d[u]]

\* lines 66-78: what the try block leaves in self.data
LoadDump(f) ==
    IF f.kind # "json" THEN EmptyDict
    ELSE LET r == JsonToData(f.js)
         IN  IF r.raised THEN EmptyDict ELSE DropUnconfigured(r.res)

\* lines 79-81
FillMissing(d) ==
    [u \in (DOMAIN d) \cup UrlSet |-> IF u \in DOMAIN d THEN d[u] ELSE EmptyDict]

\* UptimeMonitor.__init__
Construct ==
    /\ sched.pc = "init"
    /\ data' = FillMissing(LoadDump(file))
    /\ sched' = SchedIdle("tick")
    /\ UNCHANGED <<clock, file, retention_time, max_workers, queue, inflight,
                   http, tick, seen>>
    /\ UNCHANGED <<aux, snap>>

\* time passes
ClockTick ==
    /\ clock < MaxClock
    /\ clock' = clock + 1
    /\ UNCHANGED <<file, retention_time, max_workers, data, sched, queue, inflight, http,
                   tick, seen>>
    /\ UNCHANGED <<aux, snap>>

\* ------------------------------------------------------------ data_to_json
\* One step of the loops of data_to_json, run by the thread whose locals are
\* th: the outer loop follows the configured URLs, the inner one is a dict
\* iterator over the history, which other threads may change between steps.
\* A step is the start of a URL (res[url] = {} and the iterator of its
\* history), one item of the history, or the end of the history.
D2JStart(th, pc) ==
    [th EXCEPT !.pc = pc, !.ui = 1, !.it = NoIter, !.res = EmptyDict]
D2JRaises(th) ==
    /\ th.it # NoIter
    /\ IterRaises(th.it, data[Urls[th.ui]])
D2JDone(th) ==
    /\ th.it # NoIter
    /\ ~D2JRaises(th)
    /\ IterRest(th.it, data[Urls[th.ui]]) = {}
    /\ th.ui = Len(Urls)
D2JNext(th) ==
    LET u == Urls[th.ui]
        rest == IterRest(th.it, data[u])
    IN  IF th.it = NoIter
        THEN [th EXCEPT !.it = NewIter(data[u]),
                        !.res = Put(@, u, EmptyDict)]
        ELSE IF rest # {}
        THEN LET k == SetMin(rest)
             IN  [th EXCEPT !.it = IterYield(@, k),
                            !.res[u] = Put(@, FormatTs(k), data[u][k])]
        ELSE [th EXCEPT !.ui = @ + 1, !.it = NoIter]

\* --------------------------------------------------------------- run()
Min(a, b) == IF a < b THEN a ELSE b

\* where run() is after "except Exception" has logged: at time.sleep
HandlerReraises == "crashed"
Handler == "sleep"

Sleep(pc) == [SchedIdle(pc) EXCEPT !.wake = Min(clock + CheckPeriod, MaxClock)]

\* line 174, dump_data: open(self.dump_file, 'w') truncates the file, or raises
DumpOpen ==
    /\ sched.pc = "tick"
    /\ \/ /\ file' = Invalid
          /\ sched' = D2JStart(sched, "dump")
          /\ tick' = NewTick
          /\ seen' = {data}
       \/ /\ file' = file
          /\ sched' = Sleep(Handler)
          /\ tick' = [NewTick EXCEPT !.error = "open"]
          /\ seen' = {}
    /\ UNCHANGED <<clock, retention_time, max_workers, data, queue, inflight,
                   http>>
    /\ UNCHANGED <<aux, snap>>

\* line 142: self.data_to_json(), evaluated with the file open and empty
DumpNext ==
    /\ sched.pc = "dump"
    /\ IF D2JRaises(sched)
       THEN /\ sched' = Sleep(Handler)
            /\ tick' = [tick EXCEPT !.error = "data_to_json"]
            /\ seen' = {}
       ELSE /\ sched' = IF D2JDone(sched) THEN [sched EXCEPT !.pc = "dump_write"]
                        ELSE D2JNext(sched)
            /\ tick' = tick
            /\ seen' = seen
    /\ UNCHANGED <<clock, file, retention_time, max_workers, data, queue,
                   inflight, http>>
    /\ UNCHANGED <<aux, snap>>

\* line 142: json.dump writes the encoded state, or fails part-way
DumpWrite ==
    /\ sched.pc = "dump_write"
    /\ \/ /\ file' = JsonFile(sched.res)
          /\ sched' = SchedIdle("prune")
          /\ tick' = [tick EXCEPT !.dumped = TRUE]
          /\ snap' = IF snap.on
                     THEN [on |-> TRUE, states |-> seen, js |-> sched.res]
                     ELSE snap
       \/ /\ file' = Invalid
          /\ sched' = Sleep(Handler)
          /\ tick' = [tick EXCEPT !.error = "json.dump"]
          /\ snap' = snap
    /\ seen' = {}
    /\ UNCHANGED <<clock, retention_time, max_workers, data, queue, inflight,
                   http>>
    /\ UNCHANGED aux

\* line 109
ExpiredInclusive(t, now, window) == t + window <= now
Expired(t, now, window) == t + window < now

\* what self.data was while the data_to_json of dump_data ran
See(d) == IF sched.pc = "dump" THEN seen \cup {d} ELSE seen

\* line 105: now = datetime.now()
PruneBegin ==
    /\ sched.pc = "prune"
    /\ sched' = [sched EXCEPT !.pc = "prune_scan", !.now = clock, !.ui = 1,
                              !.it = NoIter, !.to_delete = {}]
    /\ before' = data
    /\ UNCHANGED <<clock, file, retention_time, max_workers, data, queue, inflight, http,
                   tick, seen, snap, call>>

\* lines 106-110: the iterator of the history, then one step of
\* "for t in data"
PruneScan ==
    /\ sched.pc = "prune_scan"
    /\ LET d == data[Urls[sched.ui]]
           rest == IterRest(sched.it, d)
       IN  IF sched.it # NoIter /\ IterRaises(sched.it, d)
           THEN /\ sched' = Sleep(Handler)
                /\ tick' = [tick EXCEPT !.error = "delete_expired"]
                /\ before' = EmptyDict
           ELSE /\ tick' = tick
                /\ before' = before
                /\ IF sched.it = NoIter
                   THEN sched' = [sched EXCEPT !.it = NewIter(d),
                                               !.to_delete = {}]
                   ELSE IF rest = {}
                   THEN sched' = [sched EXCEPT !.pc = "prune_del"]
                   ELSE LET t == SetMin(rest)
                        IN  sched' =
                              [sched EXCEPT
                                 !.it = IterYield(@, t),
                                 !.to_delete =
                                    IF Expired(t, sched.now, retention_time)
                                    THEN @ \cup {t} ELSE @]
    /\ UNCHANGED <<clock, file, retention_time, max_workers, data, queue, inflight, http,
                   seen, snap, call>>

\* lines 111-112: one "del data[t]"; after the last, the next history or
\* the end of delete_expired
PruneDel ==
    /\ sched.pc = "prune_del"
    /\ IF sched.to_delete # {}
       THEN LET t == SetMin(sched.to_delete)
            IN  /\ data' = [data EXCEPT ![Urls[sched.ui]] = Del(@, t)]
                /\ sched' = [sched EXCEPT !.to_delete = @ \ {t}]
                /\ UNCHANGED <<tick, before>>
       ELSE /\ data' = data
            /\ IF sched.ui < Len(Urls)
               THEN /\ sched' = [sched EXCEPT
                                   !.pc = "prune_scan", !.ui = @ + 1,
                                   !.it = NoIter]
                    /\ UNCHANGED <<tick, before>>
               ELSE /\ sched' = [sched EXCEPT !.pc = "submit", !.ui = 1,
                                              !.it = NoIter]
                    /\ tick' = [tick EXCEPT !.pruned = TRUE]
                    /\ before' = before
    /\ UNCHANGED <<clock, file, retention_time, max_workers, queue, inflight, http, seen,
                   snap, call>>

RECURSIVE SumOver(_, _)
SumOver(f, S) ==
    IF S = {} THEN 0
    ELSE LET x == CHOOSE y \in S : TRUE IN f[x] + SumOver(f, S \ {x})
InFlight == SumOver(inflight, UrlSet)
Pending == Len(queue) + InFlight

\* run() has submitted a probe for every URL and sleeps; all probes are done
AllCompleted ==
    /\ sched.pc = "sleep"
    /\ tick.submitted = Len(Urls)
    /\ Pending = 0

\* pool.submit(self.check_url, url): the task goes to a worker when fewer
\* than max_workers tasks are running (an idle thread, or a new one), and
\* waits in the work queue otherwise
Enqueue(u) ==
    IF InFlight < max_workers
    THEN /\ inflight' = [inflight EXCEPT ![u] = @ + 1]
         /\ queue' = queue
    ELSE /\ queue' = Append(queue, u)
         /\ inflight' = inflight

\* lines 176-177: self.pool.submit(self.check_url, url)
Submit ==
    /\ sched.pc = "submit"
    /\ Pending < MaxTasks
    /\ Enqueue(Urls[sched.ui])
    /\ tick' = [tick EXCEPT !.submitted = @ + 1]
    /\ sched' = IF sched.ui < Len(Urls)
                THEN [SchedIdle("submit") EXCEPT !.ui = sched.ui + 1]
                ELSE Sleep("sleep")
    /\ before' = EmptyDict
    /\ UNCHANGED <<clock, file, retention_time, max_workers, data, http, seen,
                   snap, call>>

\* pool.submit raises, before it queued the task (the pool is shut down) or
\* after (no new thread can be started; a worker at hand runs the task): the
\* rest of the tick is skipped
SubmitFail ==
    /\ sched.pc = "submit"
    /\ Pending < MaxTasks
    /\ \E queued \in BOOLEAN :
          IF queued THEN Enqueue(Urls[sched.ui])
          ELSE UNCHANGED <<queue, inflight>>
    /\ tick' = [tick EXCEPT !.error = "submit"]
    /\ sched' = Sleep(Handler)
    /\ before' = EmptyDict
    /\ UNCHANGED <<clock, file, retention_time, max_workers, data, http, seen,
                   snap, call>>

\* a run() that waits for its probes before the next tick
WakeWhenProbesEnded ==
    /\ sched.pc = "sleep"
    /\ clock >= sched.wake
    /\ Pending = 0
    /\ sched' = SchedIdle("tick")
    /\ UNCHANGED <<clock, file, retention_time, max_workers, data, queue, inflight, http,
                   tick, seen>>
    /\ UNCHANGED <<aux, snap>>

\* line 182: time.sleep(self.check_period) returns
Wake ==
    /\ sched.pc = "sleep"
    /\ clock >= sched.wake
    /\ sched' = SchedIdle("tick")
    /\ UNCHANGED <<clock, file, retention_time, max_workers, data, queue, inflight, http,
                   tick, seen>>
    /\ UNCHANGED <<aux, snap>>

\* ------------------------------------------------------------ the pool
\* ThreadPoolExecutor(50), line 57: at most max_workers threads run tasks.
\* A worker that is free takes the oldest task of the work queue.
WorkerStart ==
    /\ queue # <<>>
    /\ InFlight < max_workers
    /\ inflight' = [inflight EXCEPT ![Head(queue)] = @ + 1]
    /\ queue' = Tail(queue)
    /\ UNCHANGED <<clock, file, retention_time, max_workers, data, sched,
                   http, tick, seen>>
    /\ UNCHANGED <<aux, snap>>

\* what requests.get(url, timeout=3) can end in: "a" is up and answers 200,
\* "b" is down (another status, a timeout, a transport error)
Responses == {"200", "404", "timeout", "error"}
Answers(u) == IF u = "a" THEN {"200"} ELSE Responses \ {"200"}
\* requests.get raises instead of returning a response
GetRaises(resp) == resp \in {"timeout", "error"}
\* a check that takes any response for "up"
ProbeResultAnyResponse(resp) == IF GetRaises(resp) THEN 0 ELSE 1
\* lines 89-95: res stays 0 unless the GET returns with status_code == 200;
\* "except Exception: pass" swallows what the GET raises
ProbeResult(resp) == IF ~GetRaises(resp) /\ resp = "200" THEN 1 ELSE 0
\* line 97: self.data[url][datetime.now()] = res
\* (a task bound to the loop variable of run() would see the last URL)
RecordLastUrl(d, u, now, res) == [d EXCEPT ![Urls[Len(Urls)]] = Put(@, now, res)]
Record(d, u, now, res) == [d EXCEPT ![u] = Put(@, now, res)]

\* a task that ends without storing its sample
CheckUrlNoStore(u, resp) ==
    /\ inflight[u] > 0
    /\ inflight' = [inflight EXCEPT ![u] = @ - 1]
    /\ UNCHANGED <<clock, file, retention_time, max_workers, data, sched,
                   queue, tick, http, seen>>
    /\ UNCHANGED <<aux, snap>>

\* check_url: the GET ends and the sample is stored
CheckUrl(u, resp) ==
    /\ inflight[u] > 0
    /\ data' = Record(data, u, clock, ProbeResult(resp))
    /\ inflight' = [inflight EXCEPT ![u] = @ - 1]
    /\ seen' = See(data')
    /\ call' = IF call.fn = "check_url"
               THEN [fn |-> "check_url",
                     ret |-> [url |-> u, resp |-> resp, at |-> clock]]
               ELSE call
    /\ UNCHANGED <<clock, file, retention_time, max_workers, sched, queue,
                   tick, http, before, snap>>

\* ------------------------------------------------------ the HTTP handler
\* The handler has the body to write, or an exception ends the request
\* (socketserver logs it); the server thread then waits for the next request.
HttpRaise(e) == [HttpIdle EXCEPT !.pc = "failed", !.path = http.path, !.err = e]
HttpReply(out) == [HttpIdle EXCEPT !.pc = "write", !.path = http.path, !.out = out]

\* lines 203, 206: self.wfile.write(...), or the error is logged
Respond ==
    /\ http.pc \in {"write", "failed"}
    /\ http' = HttpIdle
    /\ UNCHANGED <<clock, file, retention_time, max_workers, data, sched, queue, inflight,
                   tick, seen>>
    /\ UNCHANGED <<aux, snap>>

\* a GET /full that hands the histories out and starts them afresh
GetFullClearing ==
    /\ sched.pc # "init"
    /\ http.pc = "idle"
    /\ http' = [D2JStart(HttpIdle, "full") EXCEPT !.path = "/full"]
    /\ data' = AllEmpty
    /\ UNCHANGED <<clock, file, retention_time, max_workers, sched, queue, inflight,
                   tick, seen>>
    /\ UNCHANGED <<aux, snap>>

\* line 203: GET /full begins monitor.data_to_json()
GetFull ==
    /\ sched.pc # "init"
    /\ http.pc = "idle"
    /\ http' = [D2JStart(HttpIdle, "full") EXCEPT !.path = "/full"]
    /\ UNCHANGED <<clock, file, retention_time, max_workers, data, sched, queue, inflight,
                   tick, seen>>
    /\ UNCHANGED <<aux, snap>>

FullNext ==
    /\ http.pc = "full"
    /\ http' = IF D2JRaises(http) THEN HttpRaise("RuntimeError")
               ELSE IF D2JDone(http) THEN HttpReply(http.res)
               ELSE D2JNext(http)
    /\ UNCHANGED <<clock, file, retention_time, max_workers, data, sched, queue, inflight,
                   tick, seen>>
    /\ UNCHANGED <<aux, snap>>

\* list(data.values()), in iteration order
RECURSIVE Values(_)
Values(h) ==
    IF DOMAIN h = {} THEN <<>>
    ELSE LET k == SetMin(DOMAIN h) IN <<h[k]>> \o Values(Del(h, k))

Count(l, x) == Cardinality({i \in 1..Len(l) : l[i] = x})

\* a calculate_uptime that cuts the third decimal off instead of rounding
CalculateUptimeTruncates(l) ==
    LET total == Len(l)
        ones == Count(l, 1)
    IN  IF total = 0 THEN [raised |-> TRUE, value |-> 0]
        ELSE [raised |-> FALSE, value |-> (ones * 10000) \div total]

\* calculate_uptime: round(ones / total * 100, 2), here in hundredths of a
\* percent; ZeroDivisionError on the empty list
CalculateUptime(l) ==
    LET total == Len(l)
        ones == Count(l, 1)
    IN  IF total = 0 THEN [raised |-> TRUE, value |-> 0]
        ELSE [raised |-> FALSE,
              value |-> (2 * ones * 10000 + total) \div (2 * total)]

\* line 206: GET /aggregated begins monitor.uptime()
GetAggregated ==
    /\ sched.pc # "init"
    /\ http.pc = "idle"
    /\ http' = [HttpIdle EXCEPT !.pc = "agg_len", !.ui = 1,
                                !.path = "/aggregated"]
    /\ UNCHANGED <<clock, file, retention_time, max_workers, data, sched, queue, inflight,
                   tick, seen>>
    /\ UNCHANGED <<aux, snap>>

\* line 161: len(data)
AggLen ==
    /\ http.pc = "agg_len"
    /\ http' = [http EXCEPT
                  !.pc = "agg_min",
                  !.cur = [points_count |->
                             Cardinality(DOMAIN data[Urls[http.ui]])]]
    /\ UNCHANGED <<clock, file, retention_time, max_workers, data, sched, queue, inflight,
                   tick, seen>>
    /\ UNCHANGED <<aux, snap>>

\* line 162: str(min(data.keys())); min of nothing raises ValueError
AggMin ==
    /\ http.pc = "agg_min"
    /\ LET ks == DOMAIN data[Urls[http.ui]]
       IN  http' = IF ks = {} THEN HttpRaise("ValueError")
                   ELSE [http EXCEPT
                           !.pc = "agg_max",
                           !.cur = [points_count |-> @.points_count,
                                    oldest |-> SetMin(ks)]]
    /\ UNCHANGED <<clock, file, retention_time, max_workers, data, sched, queue, inflight,
                   tick, seen>>
    /\ UNCHANGED <<aux, snap>>

\* line 163: str(max(data.keys()))
AggMax ==
    /\ http.pc = "agg_max"
    /\ LET ks == DOMAIN data[Urls[http.ui]]
       IN  http' = IF ks = {} THEN HttpRaise("ValueError")
                   ELSE [http EXCEPT
                           !.pc = "agg_uptime",
                           !.cur = [points_count |-> @.points_count,
                                    oldest |-> @.oldest,
                                    newest |-> SetMax(ks)]]
    /\ UNCHANGED <<clock, file, retention_time, max_workers, data, sched, queue, inflight,
                   tick, seen>>
    /\ UNCHANGED <<aux, snap>>

\* line 164: self.calculate_uptime(list(data.values())), then the next URL
\* or the reply
AggUptime ==
    /\ http.pc = "agg_uptime"
    /\ LET u == Urls[http.ui]
           r == CalculateUptime(Values(data[u]))
           entry == [points_count |-> http.cur.points_count,
                     oldest |-> http.cur.oldest,
                     newest |-> http.cur.newest,
                     uptime |-> r.value]
           res == Put(http.res, u, entry)
       IN  http' = IF r.raised THEN HttpRaise("ZeroDivisionError")
                   ELSE IF http.ui = Len(Urls) THEN HttpReply(res)
                   ELSE [http EXCEPT !.pc = "agg_len", !.ui = @ + 1,
                                     !.res = res, !.cur = EmptyDict]
    /\ UNCHANGED <<clock, file, retention_time, max_workers, data, sched, queue, inflight,
                   tick, seen>>
    /\ UNCHANGED <<aux, snap>>

\* ---------------------------------------------------------------- crash
\* The process is killed (the crash that lines 65-69 restore from): every
\* thread and self.data are gone, the dump file stays as it is; the process
\* then starts again with the same URL list.
Kill ==
    /\ sched.pc # "init"
    /\ data' = EmptyDict
    /\ sched' = SchedIdle("init")
    /\ queue' = <<>>
    /\ inflight' = [u \in UrlSet |-> 0]
    /\ http' = HttpIdle
    /\ tick' = NewTick
    /\ seen' = {}
    /\ before' = EmptyDict
    /\ call' = NoCall
    /\ UNCHANGED <<clock, file, retention_time, max_workers, snap>>

\* ------------------------------------------------------- specifications
Scheduler ==
    \/ DumpOpen \/ DumpNext \/ DumpWrite
    \/ PruneBegin \/ PruneScan \/ PruneDel
    \/ Submit \/ SubmitFail \/ Wake

Workers == \E u \in UrlSet : \E resp \in Answers(u) : CheckUrl(u, resp)

Server ==
    \/ GetFull \/ FullNext
    \/ GetAggregated \/ AggLen \/ AggMin \/ AggMax \/ AggUptime
    \/ Respond

\* the whole program: the monitor and the HTTP server on one self.data
Next == Construct \/ ClockTick \/ Scheduler \/ Workers \/ Server
Spec == Init /\ [][Next]_vars

\* the monitor alone: no request arrives
MonitorNext == Construct \/ ClockTick \/ Scheduler \/ Workers
MonitorSpec == Init /\ [][MonitorNext]_vars

\* the monitor, killed and started again at any moment, its dumps recorded
RestartInit == Start(DumpFiles) /\ snap = Recording
RestartNext == MonitorNext \/ Kill
RestartSpec == RestartInit /\ [][RestartNext]_vars

\* the probes of one tick on a pool of every capacity 1..MaxPool: run() is
\* at its submit loop, the histories are empty
PoolInit ==
    /\ file = NoFile
    /\ clock \in Instants
    /\ retention_time = RetentionTime
    /\ max_workers \in 1..MaxPool
    /\ data = AllEmpty
    /\ sched = [SchedIdle("submit") EXCEPT !.ui = 1]
    /\ queue = <<>>
    /\ inflight = [u \in UrlSet |-> 0]
    /\ http = HttpIdle
    /\ tick = [NewTick EXCEPT !.dumped = TRUE, !.pruned = TRUE]
    /\ seen = {}
    /\ before = EmptyDict
    /\ snap = NoSnap
    /\ call = NoCall
PoolNext == ClockTick \/ Submit \/ SubmitFail \/ WorkerStart \/ Workers
PoolSpec == PoolInit /\ [][PoolNext]_vars

\* check_url alone: one task per URL, every result of its GET, on every
\* MonitorState
ProbeInit ==
    /\ file = NoFile
    /\ clock \in Instants
    /\ retention_time = RetentionTime
    /\ max_workers = PoolSize
    /\ data \in MonitorStates
    /\ sched = Sleep("sleep")
    /\ queue = <<>>
    /\ inflight = [u \in UrlSet |-> 1]
    /\ http = HttpIdle
    /\ tick = NewTick
    /\ seen = {}
    /\ before = EmptyDict
    /\ snap = NoSnap
    /\ call = NoProbe
ProbeNext == \E u \in UrlSet : \E resp \in Responses : CheckUrl(u, resp)
ProbeSpec == ProbeInit /\ [][ProbeNext]_vars

\* The first tick of a fresh start (no dump file, empty histories), its
\* probes, and GET /aggregated requests that arrive once the probes are done;
\* the threads are scheduled fairly.
FirstTick ==
    \/ DumpOpen \/ DumpNext \/ DumpWrite
    \/ PruneBegin \/ PruneScan \/ PruneDel
    \/ Submit \/ SubmitFail
Aggregated ==
    \/ AllCompleted /\ GetAggregated
    \/ AggLen \/ AggMin \/ AggMax \/ AggUptime
    \/ Respond
OneTickNext == Construct \/ ClockTick \/ FirstTick \/ Workers \/ Aggregated
OneTickSpec ==
    /\ InitWith({NoFile})
    /\ [][OneTickNext]_vars
    /\ WF_vars(Construct)
    /\ WF_vars(FirstTick)
    /\ WF_vars(Workers)

\* The threads are scheduled fairly and wall-clock time passes: run() is the
\* main thread, a probe ends within its timeout of 3 seconds and its worker
\* then stores the sample.
FairMonitorSpec ==
    /\ MonitorSpec
    /\ WF_vars(Construct)
    /\ WF_vars(ClockTick)
    /\ WF_vars(Scheduler)
    /\ WF_vars(Workers)

\* the monitor running without a crash, its dumps recorded
DumpsSpec == RestartInit /\ [][MonitorNext]_vars

\* As above, but nothing is assumed about the probes: a GET may hang for its
\* whole timeout, a pool task may not be scheduled.
SlowProbesSpec ==
    /\ MonitorSpec
    /\ WF_vars(Construct)
    /\ WF_vars(ClockTick)
    /\ WF_vars(Scheduler)

\* construction alone, on every dump file
AllDumpFiles ==
    {NoFile, Unreadable, Invalid} \cup
    {JsonFile(j) : j \in JsonObjects(FileUrls, Seconds \cup {BadTs})}
LoadSpec == InitWith(AllDumpFiles) /\ [][Construct]_vars

\* delete_expired alone, on every MonitorState, now and window
PruneInit ==
    /\ file = NoFile
    /\ clock \in Instants
    /\ retention_time \in 0..MaxWindow
    /\ max_workers = PoolSize
    /\ data \in MonitorStates
    /\ AtRest("prune")
    /\ snap = NoSnap
PruneNext == PruneBegin \/ PruneScan \/ PruneDel
PruneSpec == PruneInit /\ [][PruneNext]_vars

\* One tick of run(), from every MonitorState whose samples are not in the
\* future, with the time at which the tick starts noted
TickStarts(t) == [fn |-> "run", ret |-> [tick_start |-> t]]
TickInit ==
    /\ file = NoFile
    /\ clock \in Instants
    /\ retention_time = RetentionTime
    /\ max_workers = PoolSize
    /\ data \in {d \in MonitorStates :
                    \A u \in UrlSet : \A t \in DOMAIN d[u] : t <= clock}
    /\ sched = SchedIdle("tick")
    /\ queue = <<>>
    /\ inflight = [u \in UrlSet |-> 0]
    /\ http = HttpIdle
    /\ tick = NewTick
    /\ seen = {}
    /\ before = EmptyDict
    /\ snap = NoSnap
    /\ call = TickStarts(clock)
TickNext == ClockTick \/ FirstTick \/ Workers
TickSpec == TickInit /\ [][TickNext]_vars

\* uptime() alone (GET /aggregated), on every MonitorState in which every
\* URL has a sample
AggInit ==
    /\ file = NoFile
    /\ clock = MaxClock
    /\ retention_time = RetentionTime
    /\ max_workers = PoolSize
    /\ data \in {d \in MonitorStates : \A u \in UrlSet : DOMAIN d[u] # {}}
    /\ AtRest("tick")
    /\ snap = NoSnap
AggNext ==
    GetAggregated \/ AggLen \/ AggMin \/ AggMax \/ AggUptime \/ Respond
AggSpec == AggInit /\ [][AggNext]_vars

\* json_to_data applied to what a /full request returned
Decode ==
    /\ http.pc = "write" /\ http.path = "/full"
    /\ call = NoCall
    /\ call' = [fn |-> "json_to_data", ret |-> JsonToData(http.out)]
    /\ UNCHANGED <<clock, file, retention_time, max_workers, data, sched, queue, inflight,
                   http, tick, seen, before, snap>>

\* the codec alone, on every MonitorState
CodecInit ==
    /\ file = NoFile
    /\ clock = MaxClock
    /\ retention_time = RetentionTime
    /\ max_workers = PoolSize
    /\ data \in MonitorStates
    /\ AtRest("tick")
    /\ snap = NoSnap
CodecNext == GetFull \/ FullNext \/ Decode \/ Respond
CodecSpec == CodecInit /\ [][CodecNext]_vars

\* ------------------------------------------------------------- properties
SecondPrecision(d) == \A u \in DOMAIN d : \A t \in DOMAIN d[u] : t % Sub = 0

\* C1: run() never ends because a tick failed: the exception of dump_data,
\* delete_expired or pool.submit is caught and, after the sleep, the next
\* tick starts; from every state a tick start is reached again.
C1_NextTickAlwaysStarts == []<>(sched.pc = "tick")
\* a tick starts after each kind of failure
C1_TickAfterFailure ==
    /\ sched.pc = "tick"
    /\ tick.error = "delete_expired"

\* C2: a tick whose dump failed has, when it ends, still pruned and still
\* dispatched one probe per configured URL.
C2_FailedDumpTickPrunesAndProbes ==
    (sched.pc = "sleep" /\ tick.error \in DumpErrors)
        => (tick.pruned /\ tick.submitted = Len(Urls))

\* C3: no operation iterating over a history (delete_expired, data_to_json)
\* raises because a probe task inserted a sample while it iterated.
C3_IterationNeverRaises ==
    /\ tick.error \notin {"delete_expired", "data_to_json"}
    /\ http.err # "RuntimeError"

\* C4: what one call of data_to_json returns (here to dump_data, which
\* writes it to the dump file) is the encoding of self.data as it was at one
\* instant during the call.
C4_SnapshotIsPointInTime ==
    sched.pc = "dump_write" => \E d \in seen : sched.res = DataToJson(d)

\* C5: when the dump file is absent, unreadable, not JSON or holds a
\* timestamp key that does not parse, the constructed state maps every
\* configured URL to an empty history.
LoadFails(f) ==
    \/ f.kind # "json"
    \/ \E u \in DOMAIN f.js : BadTs \in DOMAIN f.js[u]
C5_FailedLoadStartsEmpty ==
    (sched.pc # "init" /\ LoadFails(file)) => data = AllEmpty
\* a dump with a good sample of a configured URL beside a bad key
C5_BadKeyBesideGoodSample ==
    /\ sched.pc # "init"
    /\ file.kind = "json"
    /\ \E u \in DOMAIN file.js : BadTs \in DOMAIN file.js[u]
    /\ \E u \in UrlSet \cap DOMAIN file.js : 0 \in DOMAIN file.js[u]
    /\ data = AllEmpty

\* C6: from the end of construction on, the keys of self.data are exactly
\* the configured URLs.
C6_KeysAreTheConfiguredUrls == sched.pc # "init" => DOMAIN data = UrlSet
\* the dump held an unconfigured URL and lacked a configured one
C6_LoadedAndRunning ==
    /\ "x" \in DOMAIN file.js /\ "b" \notin DOMAIN file.js
    /\ sched.pc = "sleep"
    /\ DOMAIN data = UrlSet
    /\ data["a"] # EmptyDict /\ data["b"] = EmptyDict

\* C7: a GET /aggregated never fails, whatever the histories hold (an empty
\* history included).
C7_AggregationNeverFails == http.path = "/aggregated" => http.err = "none"

\* C8: delete_expired, run without concurrent writers, leaves self.data as
\* it was before with exactly the samples of instant + window >= now kept.
Retained(d, now, window) ==
    [u \in DOMAIN d |->
        [t \in {x \in DOMAIN d[u] : x + window >= now} |-> d[u][t]]]
PruneDone == sched.pc = "submit" /\ tick.pruned /\ tick.submitted = 0
C8_PruneKeepsExactlyTheFresh ==
    PruneDone => data = Retained(before, sched.now, retention_time)
\* a history of which one sample went and one, on the boundary, stayed
C8_OneGoneOneOnTheBoundary ==
    /\ PruneDone
    /\ \E u \in UrlSet : \E t1, t2 \in DOMAIN before[u] :
          /\ t1 \notin DOMAIN data[u]
          /\ t2 \in DOMAIN data[u]
          /\ t2 + retention_time = sched.now

\* C9: for a state whose instants are whole seconds, json_to_data of
\* data_to_json of the state is the state.
C9_CodecRoundTrip ==
    (call.fn = "json_to_data" /\ SecondPrecision(data))
        => (~call.ret.raised /\ call.ret.res = data)
C9_TwoSecondsDecoded ==
    /\ call.fn = "json_to_data"
    /\ SecondPrecision(data)
    /\ \E u \in UrlSet : Cardinality(DOMAIN data[u]) >= 2

\* C10: every instant held in self.data is a whole second.
C10_InstantsAreWholeSeconds == sched.pc # "init" => SecondPrecision(data)

\* C11: after a kill outside a dump write and a restart, the constructed
\* state is self.data as it was at an instant of the most recent completed
\* dump, whose content the dump file holds.
JustConstructed == sched.pc = "tick" /\ tick = NewTick
C11_RestartRestoresTheSnapshot ==
    (JustConstructed /\ snap.states # {} /\ file = JsonFile(snap.js))
        => data \in snap.states

\* C12: never more than max_workers probes are running, and once the probes
\* dispatched for the N URLs have all completed, every URL holds exactly one
\* sample.
C12_PoolBoundOneSamplePerUrl ==
    /\ InFlight <= max_workers
    /\ AllCompleted => \A u \in UrlSet : Cardinality(DOMAIN data[u]) = 1
\* a probe waits in the queue while the pool is full
C12_ProbeWaitsForASlot ==
    /\ queue = <<"b">>
    /\ InFlight = max_workers
    /\ data = AllEmpty

\* C13: the probes of a tick all end and each stores one sample for its URL
\* under the instant at which it ends; after the first tick of a fresh start
\* GET /aggregated reports one point and 100.0 for the URL that answers 200,
\* one point and 0.0 for the URL that does not.
OnePoint(e, up) == e.points_count = 1 /\ e.oldest = e.newest /\ e.uptime = up
Stamped ==
    \A u \in UrlSet :
        inflight'[u] < inflight[u] =>
            /\ DOMAIN data'[u] = DOMAIN data[u] \cup {clock}
            /\ data'[u][clock] = (IF u = "a" THEN 1 ELSE 0)
            /\ \A t \in DOMAIN data[u] \ {clock} : data'[u][t] = data[u][t]
            /\ \A v \in UrlSet \ {u} : data'[v] = data[v]
C13_TickAddsOneSamplePerUrl ==
    /\ [](tick.submitted = Len(Urls) => <>(Pending = 0))
    /\ [][Stamped]_vars
    /\ []((http.pc = "write" /\ http.path = "/aggregated") =>
            /\ OnePoint(http.out["a"], 10000)
            /\ OnePoint(http.out["b"], 0))
\* the report, the two probes having ended at different instants
C13_ReportAfterOneTick ==
    /\ http.pc = "write" /\ http.path = "/aggregated"
    /\ http.out["a"].oldest # http.out["b"].oldest

\* C14: whatever the GET ends in, check_url ends by storing a sample, and
\* the outcome stored is 1 exactly when the response has status 200.
Probed == call.fn = "check_url" /\ call.ret # EmptyDict
C14_OutcomeIsOneIffStatus200 ==
    Probed =>
        /\ call.ret.at \in DOMAIN data[call.ret.url]
        /\ data[call.ret.url][call.ret.at] = 1 <=> call.ret.resp = "200"
        /\ data[call.ret.url][call.ret.at] \in {0, 1}
\* a probe whose GET returned 404 has stored 0, the other URL's probe is over
C14_OtherStatusStoredZero ==
    /\ Probed
    /\ call.ret.resp = "404"
    /\ data[call.ret.url][call.ret.at] = 0
    /\ \E u \in UrlSet : u # call.ret.url /\ inflight[u] = 0

\* C15: the report of uptime() on a state where every URL has a sample
\* gives, per URL, the number of samples, the least and the greatest instant,
\* and the share of outcomes 1 as a percentage rounded to two decimals (the
\* value in hundredths of a percent nearest to ones / total * 100).
Ones(h) == Cardinality({t \in DOMAIN h : h[t] = 1})
NearestHundredth(v, ones, total) ==
    /\ 2 * (v * total - ones * 10000) <= total
    /\ 2 * (ones * 10000 - v * total) <= total
C15_ReportIsCorrect ==
    (http.pc = "write" /\ http.path = "/aggregated") =>
        \A u \in UrlSet :
            LET h == data[u]
                e == http.out[u]
            IN  /\ e.points_count = Cardinality(DOMAIN h)
                /\ e.oldest \in DOMAIN h /\ \A t \in DOMAIN h : e.oldest <= t
                /\ e.newest \in DOMAIN h /\ \A t \in DOMAIN h : e.newest >= t
                /\ NearestHundredth(e.uptime, Ones(h), Cardinality(DOMAIN h))
\* a report with two outcomes 1 among three samples (66.67) beside a URL
\* with the single outcome 1 (100.0)
C15_TwoThirdsReported ==
    /\ http.pc = "write" /\ http.path = "/aggregated"
    /\ http.out["a"].points_count = 3
    /\ http.out["a"].uptime = 6667
    /\ http.out["a"].oldest < http.out["a"].newest
    /\ http.out["b"].points_count = 1
    /\ http.out["b"].uptime = 10000

\* C16: no step of a request (GET /full or GET /aggregated, answered or
\* failed) changes self.data, the retention window or the dump file; the
\* running program changes self.data only by a probe task adding one sample
\* to its URL's history or by delete_expired removing samples.
Running == sched.pc # "init"
AddsOneSample ==
    \E u \in UrlSet :
        /\ inflight'[u] = inflight[u] - 1
        /\ \E t \in Instants : \E r \in Outcomes :
               data' = [data EXCEPT ![u] = Put(@, t, r)]
RemovesSamples ==
    /\ sched.pc = "prune_del"
    /\ \A u \in UrlSet :
          /\ DOMAIN data'[u] \subseteq DOMAIN data[u]
          /\ \A t \in DOMAIN data'[u] : data'[u][t] = data[u][t]
C16_QueriesAreReadOnly ==
    /\ [][(Running /\ http' # http) =>
             (data' = data /\ file' = file /\
              retention_time' = retention_time)]_vars
    /\ [][(Running /\ data' # data) => (AddsOneSample \/ RemovesSamples)]_vars
\* a /full request was answered while both histories held samples and the
\* dump on disk differed from them
C16_ServedWithSamplesAndDump ==
    /\ http.pc = "write" /\ http.path = "/full"
    /\ \A u \in UrlSet : DOMAIN data[u] # {}
    /\ file.kind = "json" /\ file.js # DataToJson(data)

\* C17: a tick dumps, then prunes, then submits, and its prune removes no
\* sample whose instant + window reaches the time at which the tick started
\* (the cutoff is the time of the tick's start, however long the dump took).
C17_PruneCutoffIsTickStart ==
    /\ (sched.pc \in {"prune", "prune_scan", "prune_del"}) => tick.dumped
    /\ tick.submitted > 0 => (tick.dumped /\ tick.pruned)
    /\ PruneDone =>
          \A u \in UrlSet : \A t \in DOMAIN before[u] :
              t + retention_time >= call.ret.tick_start => t \in DOMAIN data[u]

\* C18: run() does not wait for its probes: once a tick has submitted them
\* and sleeps, the next tick starts whether or not any of them has ended;
\* and a probe that ends later, whatever the scheduler is doing then, stores
\* its sample.
C18_SchedulerNeverWaitsForProbes ==
    /\ (sched.pc = "sleep" /\ tick.submitted = Len(Urls)) ~> (sched.pc = "tick")
    /\ [][\A u \in UrlSet : inflight'[u] < inflight[u] =>
              (clock \in DOMAIN data'[u] /\ Stamped)]_vars
\* the next tick has dumped and pruned and not yet submitted, and the store
\* holds a sample that was not there when its prune began
C18_SampleAfterNextPrune ==
    /\ PruneDone
    /\ file.kind = "json"
    /\ \E u \in UrlSet : \E t \in DOMAIN data[u] :
          /\ t \notin DOMAIN before[u]
          /\ t \div Sub \notin DOMAIN file.js[u]

\* C19: when a tick ends because dump_data raised (open, data_to_json or
\* json.dump), the dump file still holds what the last successful dump wrote.
C19_FailedDumpKeepsLastSnapshot ==
    (sched.pc = "sleep" /\ tick.error \in DumpErrors /\ snap.states # {})
        => file = JsonFile(snap.js)

\* C20: in every state of the running monitor and for every URL, the
\* encoding data_to_json gives of the state has as many timestamp entries
\* for the URL as uptime() counts points (len of the history).
C20_RawAndAggregatedAgree ==
    Running =>
        \A u \in UrlSet :
            Cardinality(DOMAIN DataToJson(data)[u]) = Cardinality(DOMAIN data[u])

====
